---- MODULE Spec2Model ----
(***************************************************************************)
(* State-machine model of ytmusicapi/ytmusic.py: the YTMusic constructor   *)
(* (credential loading, visitor-id bootstrap, context building, cookie     *)
(* verification) and the request dispatcher (_send_request,                *)
(* _send_get_request) running as asyncio coroutines over one shared        *)
(* aiohttp session.                                                        *)
(*                                                                         *)
(* Strings that the code concatenates are modelled as sequences of pieces. *)
(* A Python exception is a record [type, site, msg]: type is the Python    *)
(* class that is raised, site the construction or dispatch step raising it.*)
(***************************************************************************)
EXTENDS Integers, Sequences, FiniteSets, TLC

\* ------------------------------------------------------------------ bounds
\* The signer's clock runs from 0 to MaxClock (seconds, time.time() truncated).
MaxClock == 1
\* Total number of method invocations on the instance (_send_request,
\* _send_get_request, _check_auth).
MaxCalls == 2

\* The two coroutine slots that may be in flight at once.
CallIds == {"a", "b"}

\* ------------------------------------------------------------------ values
Absent == "<absent>"

\* A cookie header that carries __Secure-3PAPISID=s1, and one that does not.
CookieSid == "__Secure-3PAPISID=s1"
CookieNoSid == "CONSENT=YES"
Secret == "s1"

\* An Authorization value: "SAPISIDHASH <ts>_<sha1(ts secret origin)>" is kept
\* as the triple it is computed from (the hash is taken to be collision free).
NoToken == [ts |-> -1, secret |-> Absent, origin |-> Absent]

\* A case-insensitive header map restricted to the keys the code reads or
\* writes; Absent / NoToken mean the key is not in the map.
NoHeaders ==
    [cookie |-> Absent, visitor |-> Absent, origin |-> Absent,
     xorigin |-> Absent, authorization |-> NoToken]

\* Credential bundles a caller may pass as JSON (header name -> value).
Bundles ==
    [cookie : {Absent, CookieNoSid, CookieSid},
     visitor : {Absent, "v1"},
     origin : {Absent, "https://music.youtube.com"},
     xorigin : {Absent, "https://x.youtube.com"}]

NoBundle == [cookie |-> Absent, visitor |-> Absent, origin |-> Absent, xorigin |-> Absent]

\* The auth argument: None/"" ("none"), a path to an existing file holding a
\* JSON object ("file_json") or garbage ("file_invalid"), inline JSON text of
\* an object ("text_json"), or text that is neither ("text_invalid").
AuthInputs ==
    {[kind |-> k, bundle |-> NoBundle] : k \in {"none", "file_invalid", "text_invalid"}}
    \cup {[kind |-> "text_json", bundle |-> b] : b \in Bundles}
    \cup {[kind |-> "file_json", bundle |-> b] :
            b \in {c \in Bundles : c.cookie = CookieSid /\ c.visitor = "v1" /\ c.origin = Absent}}

UserInputs == {Absent, "u1"}
\* "de" is supported and is not the locale initialize_context starts from;
\* "xx" is not supported.
LanguageInputs == {"de", "xx"}

\* client_session: None (the library creates a stock aiohttp.ClientSession),
\* or a caller-supplied instance of aiohttp.ClientSession or of a subclass.
\*   "stock"      aiohttp.ClientSession itself: post()/get() reject the keyword
\*                `proxies` with TypeError when called
\*   "custom"     a subclass whose post()/get() accept `proxies`; responses are
\*                aiohttp.ClientResponse (status, reason; no status_code)
\*   "custom_sc"  as "custom", with a response class that also has status_code
SessionInputs == {"stock", "custom", "custom_sc"}

\* os.listdir(locale_dir)
supported_languages == <<"de", "en">>

NoError == [type |-> "none", site |-> "none", msg |-> <<>>]
Raise(type, site, msg) == [type |-> type, site |-> site, msg |-> msg]

RECURSIVE join(_, _)
\* str.join: sep.join(list), as a sequence of pieces
join(sep, list) ==
    IF Len(list) = 0 THEN <<>>
    ELSE IF Len(list) = 1 THEN <<list[1]>>
    ELSE <<list[1]>> \o sep \o join(sep, Tail(list))

InSeq(x, s) == \E i \in 1..Len(s) : s[i] = x

\* ------------------------------------------------------------------ helpers
\* ytmusicapi.helpers (not part of the source at hand)

\* initialize_headers(): the default unauthenticated header set; whether it
\* already carries a visitor id is left open.
DefaultHeaders ==
    {[NoHeaders EXCEPT !.origin = "https://music.youtube.com", !.visitor = v] :
        v \in {Absent, "v1"}}

\* initialize_context(): client metadata with the default locale, empty user
initialize_context == [hl |-> "en", onBehalfOfUser |-> Absent]

\* sapisid_from_cookie(cookie): the value of __Secure-3PAPISID inside the
\* cookie; the lookup fails with KeyError when it is not there.
sapisid_from_cookie(cookie) ==
    IF cookie = CookieSid
    THEN [raised |-> FALSE, value |-> Secret]
    ELSE [raised |-> TRUE, value |-> Absent]

\* get_authorization(secret + " " + origin) at time ts
get_authorization(secret, origin, ts) ==
    [ts |-> ts, secret |-> secret, origin |-> origin]

\* ------------------------------------------------------------------ __init__
BundleHeaders(b) ==
    [cookie |-> b.cookie, visitor |-> b.visitor, origin |-> b.origin,
     xorigin |-> b.xorigin, authorization |-> NoToken]

\* Lines 90-106. With auth: the file branch calls orjson.load, which orjson
\* does not have (it exposes loads and dumps only), so it raises
\* AttributeError inside the try, whatever the file holds; inline text goes
\* through orjson.loads. Every exception is caught, printed, and construction
\* goes on with self.headers never assigned.
load_headers(auth, dflt) ==
    IF auth.kind = "none"
    THEN [set |-> TRUE, printed |-> FALSE, headers |-> dflt]
    ELSE IF auth.kind = "text_json"
    THEN [set |-> TRUE, printed |-> FALSE, headers |-> BundleHeaders(auth.bundle)]
    ELSE [set |-> FALSE, printed |-> TRUE, headers |-> NoHeaders]

\* Lines 108-111. Reading self.headers raises AttributeError when it was never
\* assigned. With a visitor id in the headers nothing is done. Otherwise
\* get_visitor_id(self._send_get_request) is evaluated (`driven`: whether that
\* helper ran the GET coroutine to completion) and its result is passed, inside
\* a list, to asyncio.gather, which rejects a list with TypeError; the
\* subscript [0] and headers.update are never reached.
bootstrap(L, sess, driven) ==
    IF ~L.set
    THEN [err |-> Raise("AttributeError", "bootstrap", <<>>), gets |-> 0]
    ELSE IF L.headers.visitor # Absent
    THEN [err |-> NoError, gets |-> 0]
    ELSE [err |-> Raise("TypeError", "bootstrap", <<>>),
          gets |-> IF driven /\ sess # "stock" THEN 1 ELSE 0]

\* Lines 119-122: the two adjacent string literals are concatenated into one
\* string, which is then the separator of join.
language_message ==
    join(<<"Language not supported. Supported languages are ", ", ">>,
         supported_languages)

\* Mutant of build_context: the locale is left at its default (line 115 lost).
build_context_default_locale(language, user) ==
    IF ~InSeq(language, supported_languages)
    THEN [err |-> Raise("Exception", "language", language_message),
          context |-> initialize_context]
    ELSE [err |-> NoError,
          context |-> IF user # Absent
                      THEN [initialize_context EXCEPT !.onBehalfOfUser = user]
                      ELSE initialize_context]

\* Mutant of build_context: the user is never embedded (lines 134-135 lost).
build_context_no_user(language, user) ==
    LET c0 == [initialize_context EXCEPT !.hl = language]
    IN  IF ~InSeq(language, supported_languages)
        THEN [err |-> Raise("Exception", "language", language_message), context |-> c0]
        ELSE [err |-> NoError, context |-> c0]

\* Lines 113-123 and 134-135
build_context(language, user) ==
    LET c0 == [initialize_context EXCEPT !.hl = language]
    IN  IF ~InSeq(language, supported_languages)
        THEN [err |-> Raise("Exception", "language", language_message), context |-> c0]
        ELSE [err |-> NoError,
              context |-> IF user # Absent THEN [c0 EXCEPT !.onBehalfOfUser = user] ELSE c0]

\* Mutant of verify_cookie: the KeyError is swallowed instead of re-raised.
verify_cookie_swallow(auth, headers) ==
    IF auth.kind = "none"
    THEN [err |-> NoError, set |-> FALSE, sapisid |-> Absent]
    ELSE LET r == sapisid_from_cookie(headers.cookie)
         IN  [err |-> NoError, set |-> ~r.raised, sapisid |-> r.value]

\* Lines 137-145
verify_cookie(auth, headers) ==
    IF auth.kind = "none"
    THEN [err |-> NoError, set |-> FALSE, sapisid |-> Absent]
    ELSE LET r == sapisid_from_cookie(headers.cookie)
         IN  IF r.raised
             THEN [err |-> Raise("Exception", "cookie",
                                 <<"Your cookie is missing the required value __Secure-3PAPISID">>),
                   set |-> FALSE, sapisid |-> Absent]
             ELSE [err |-> NoError, set |-> TRUE, sapisid |-> r.value]

\* The whole constructor, lines 78-145: the attributes it leaves behind, the
\* steps it ran in order, and the exception it ended with (NoError: an
\* instance is returned).
YTMusicInit(auth, user, sess, language, dflt, driven) ==
    LET L == load_headers(auth, dflt)
        B == bootstrap(L, sess, driven)
        C == build_context(language, user)
        V == verify_cookie(auth, L.headers)
        base == [err |-> NoError, steps |-> <<"load">>, printed |-> L.printed,
                 headersSet |-> L.set, headers |-> L.headers,
                 context |-> initialize_context, contextSet |-> FALSE,
                 sapisid |-> Absent, gets |-> B.gets]
    IN  IF B.err # NoError
        THEN [base EXCEPT !.err = B.err, !.steps = <<"load", "bootstrap">>]
        ELSE IF C.err # NoError
        THEN [base EXCEPT !.err = C.err, !.steps = <<"load", "bootstrap", "context">>,
                          !.context = C.context, !.contextSet = TRUE]
        ELSE IF V.err # NoError
        THEN [base EXCEPT !.err = V.err,
                          !.steps = <<"load", "bootstrap", "context", "verify">>,
                          !.context = C.context, !.contextSet = TRUE]
        ELSE [base EXCEPT !.steps = <<"load", "bootstrap", "context", "verify">>,
                          !.context = C.context, !.contextSet = TRUE,
                          !.sapisid = V.sapisid]

\* ------------------------------------------------------------------ dispatch
NoCtx == [hl |-> Absent, onBehalfOfUser |-> Absent]
NoBody == [hasContext |-> FALSE, context |-> NoCtx, query |-> Absent]

\* Bodies the endpoint facade hands to _send_request: with and without a
\* top-level "context" key of its own.
CallerBodies ==
    {[hasContext |-> FALSE, context |-> NoCtx, query |-> "q"],
     [hasContext |-> TRUE, context |-> [hl |-> "zz", onBehalfOfUser |-> "other"],
      query |-> "q"]}

\* HTTP responses: the status and the shape of the body
\*   "json_other"        a JSON object without an "error" key
\*   "error_message"     {"error": {"message": "x"}}
\*   "error_no_message"  {"error": {}}
\*   "not_json"          not decodable as JSON
ErrorText == "x"
Responses ==
    [status : {200, 401},
     shape : {"json_other", "error_message", "error_no_message", "not_json"}]
NoResp == [status |-> 0, shape |-> Absent]

reason(status) == IF status = 401 THEN "Unauthorized" ELSE "OK"

NoResult == [type |-> "pending", site |-> "none", status |-> 0, msg |-> <<>>, value |-> Absent]
Raised(type, site) == [NoResult EXCEPT !.type = type, !.site = site]
Returned(value) == [NoResult EXCEPT !.type = "return", !.value = value]

\* Mutant of update: a context key the caller put in the body is kept
\* (setdefault instead of update).
update_keep_caller(body, ctx) ==
    IF body.hasContext THEN body ELSE [body EXCEPT !.hasContext = TRUE, !.context = ctx]

\* Line 150: body.update(self.context); self.context has the one top-level
\* key "context".
update(body, ctx) == [body EXCEPT !.hasContext = TRUE, !.context = ctx]

\* Line 152: self.headers.get("origin", self.headers.get("x-origin"))
get_origin(h) == IF h.origin # Absent THEN h.origin ELSE h.xorigin

\* Lines 151-155: the Authorization value is written into the shared map.
sign(h, secret, ts) ==
    [h EXCEPT !.authorization = get_authorization(secret, get_origin(h), ts)]

\* Mutant of authorize: the guard `if self.auth` is dropped.
authorize_always(a, h, secret, ts) ==
    [raised |-> FALSE, headers |-> sign(h, secret, ts),
     token |-> get_authorization(secret, get_origin(h), ts)]

\* Mutant of authorize: a missing origin is formatted instead of failing the
\* concatenation.
authorize_any_origin(a, h, secret, ts) ==
    IF ~a
    THEN [raised |-> FALSE, headers |-> h, token |-> NoToken]
    ELSE [raised |-> FALSE, headers |-> sign(h, secret, ts),
          token |-> get_authorization(secret, get_origin(h), ts)]

\* Lines 151-155. Without auth nothing is signed. With auth and no origin,
\* self.sapisid + " " + None raises TypeError before the assignment to
\* self.headers["Authorization"]; otherwise the value is computed and written.
authorize(a, h, secret, ts) ==
    IF ~a
    THEN [raised |-> FALSE, headers |-> h, token |-> NoToken]
    ELSE IF get_origin(h) = Absent
    THEN [raised |-> TRUE, headers |-> h, token |-> NoToken]
    ELSE [raised |-> FALSE, headers |-> sign(h, secret, ts),
          token |-> get_authorization(secret, get_origin(h), ts)]

\* Lines 163-174, once the response is there.
classify(sess, r) ==
    IF r.shape = "not_json"
    THEN Raised("JSONDecodeError", "json")
    ELSE IF r.status < 400
    THEN Returned(r.shape)
    ELSE IF sess # "custom_sc"
    THEN Raised("AttributeError", "status_code")
    ELSE IF r.shape = "error_message"
    THEN [type |-> "Exception", site |-> "raise", status |-> r.status,
          msg |-> <<"Server returned HTTP ", ToString(r.status), ": ",
                    reason(r.status), ".\n", ErrorText>>,
          value |-> Absent]
    ELSE Raised("TypeError", "message")

IdleCall ==
    [pc |-> "idle", kind |-> "none", at |-> -1, arg |-> NoBody, body |-> NoBody,
     token |-> NoToken, sends |-> 0, sentAuth |-> NoToken, sentBody |-> NoBody,
     resp |-> NoResp, result |-> NoResult]

\* ------------------------------------------------------------------ state
VARIABLES
    phase,      \* "new", "ready" (an instance was returned), "failed"
    args,       \* the constructor's arguments
    ctor,       \* what the constructor did: err, steps, printed, gets, ...
    auth,       \* bool(self.auth)
    session,    \* self._session
    headers,    \* self.headers, the shared map
    context,    \* self.context["context"]
    sapisid,    \* self.sapisid
    calls,      \* the dispatcher coroutines, by slot
    started,    \* method invocations so far
    clock,      \* time.time()
    life        \* exited: __exit__ has run; sessionOpen: self._session is open

vars == <<phase, args, ctor, auth, session, headers, context, sapisid, calls, started, clock, life>>

NoArgs == [auth |-> [kind |-> "none", bundle |-> NoBundle], user |-> Absent,
           session |-> Absent, language |-> Absent]

NoCtor == [err |-> NoError, steps |-> <<>>, printed |-> FALSE, headersSet |-> FALSE,
           headers |-> NoHeaders, context |-> initialize_context, contextSet |-> FALSE,
           sapisid |-> Absent, gets |-> 0]

Init ==
    /\ phase = "new"
    /\ args = NoArgs
    /\ ctor = NoCtor
    /\ auth = FALSE
    /\ session = Absent
    /\ headers = NoHeaders
    /\ context = NoCtx
    /\ sapisid = Absent
    /\ calls = [i \in CallIds |-> IdleCall]
    /\ started = 0
    /\ clock = 0
    /\ life = [exited |-> FALSE, sessionOpen |-> FALSE]

\* YTMusic(auth, user, client_session, proxies, language)
Construct ==
    /\ phase = "new"
    /\ \E a \in AuthInputs, u \in UserInputs, s \in SessionInputs,
          l \in LanguageInputs, d \in DefaultHeaders, driven \in BOOLEAN :
          LET r == YTMusicInit(a, u, s, l, d, driven)
          IN  /\ args' = [auth |-> a, user |-> u, session |-> s, language |-> l]
              /\ ctor' = r
              /\ phase' = IF r.err = NoError THEN "ready" ELSE "failed"
              /\ auth' = (a.kind # "none")
              /\ session' = s
              /\ headers' = r.headers
              /\ context' = IF r.contextSet THEN r.context ELSE NoCtx
              /\ sapisid' = r.sapisid
    /\ life' = [exited |-> FALSE, sessionOpen |-> TRUE]
    /\ UNCHANGED <<calls, started, clock>>

\* Time passes. The clock is read only when a call signs, so it is left alone
\* once no further call can start.
Tick ==
    /\ phase = "ready"
    /\ ~life.exited
    /\ started < MaxCalls
    /\ clock < MaxClock
    /\ clock' = clock + 1
    /\ UNCHANGED <<phase, args, ctor, auth, session, headers, context, sapisid, calls, started, life>>

\* The slots are interchangeable names: the first call takes slot "a".
CanStart(i) ==
    /\ phase = "ready"
    /\ ~life.exited
    /\ i = "b" => calls["a"].pc # "idle"
    /\ calls[i].pc \in {"idle", "done"}
    /\ started < MaxCalls

\* _send_request up to its first suspension, lines 147-162: merge, sign, and
\* call session.post with the shared header map itself. A stock session
\* raises TypeError on the keyword `proxies`. Otherwise the session reads the
\* map it was handed either before it first suspends (`eager`) or after.
SendRequest(i) ==
    /\ CanStart(i)
    /\ \E b \in CallerBodies, eager \in BOOLEAN :
          LET merged == update(b, context)
              c0 == [IdleCall EXCEPT !.kind = "post", !.at = clock, !.arg = b, !.body = merged]
              A == authorize(auth, headers, sapisid, clock)
          IN  IF A.raised
              THEN /\ calls' = [calls EXCEPT ![i] =
                          [c0 EXCEPT !.pc = "done", !.result = Raised("TypeError", "sign")]]
                   /\ headers' = headers
              ELSE LET h1 == A.headers
                       c1 == [c0 EXCEPT !.token = A.token]
                   IN  /\ headers' = h1
                       /\ calls' = [calls EXCEPT ![i] =
                            IF session = "stock"
                            THEN [c1 EXCEPT !.pc = "done", !.result = Raised("TypeError", "post")]
                            ELSE IF eager
                            THEN [c1 EXCEPT !.pc = "inflight", !.sends = 1,
                                            !.sentAuth = h1.authorization, !.sentBody = merged]
                            ELSE [c1 EXCEPT !.pc = "posted"]]
    /\ started' = started + 1
    /\ UNCHANGED <<phase, args, ctor, auth, session, context, sapisid, clock, life>>

\* _send_get_request up to its first suspension, lines 176-183
SendGetRequest(i) ==
    /\ CanStart(i)
    /\ \E eager \in BOOLEAN :
          LET c0 == [IdleCall EXCEPT !.kind = "get"]
          IN  calls' = [calls EXCEPT ![i] =
                  IF session = "stock"
                  THEN [c0 EXCEPT !.pc = "done", !.result = Raised("TypeError", "get")]
                  ELSE IF eager
                  THEN [c0 EXCEPT !.pc = "inflight", !.sends = 1,
                                  !.sentAuth = headers.authorization]
                  ELSE [c0 EXCEPT !.pc = "posted"]]
    /\ started' = started + 1
    /\ UNCHANGED <<phase, args, ctor, auth, session, headers, context, sapisid, clock, life>>

\* The session serialises the request from the header map and body it holds
\* references to.
Transmit(i) ==
    /\ calls[i].pc = "posted"
    /\ calls' = [calls EXCEPT ![i] =
            [@ EXCEPT !.pc = "inflight", !.sends = @ + 1,
                      !.sentAuth = headers.authorization,
                      !.sentBody = calls[i].body]]
    /\ UNCHANGED <<phase, args, ctor, auth, session, headers, context, sapisid, started, clock, life>>

\* The response arrives: lines 163-174 for a POST; line 185 for a GET, which
\* returns response.text without looking at the response.
Respond(i) ==
    /\ calls[i].pc = "inflight"
    /\ \E r \in Responses :
          calls' = [calls EXCEPT ![i] =
              [@ EXCEPT !.pc = "done",
                        !.resp = IF calls[i].kind = "post" THEN r ELSE NoResp,
                        !.result = IF calls[i].kind = "post"
                                   THEN classify(session, r)
                                   ELSE Returned("text")]]
    /\ UNCHANGED <<phase, args, ctor, auth, session, headers, context, sapisid, started, clock, life>>

\* Mutant of NetworkFail: the failed request is put back to be sent again.
NetworkFailRetry(i) ==
    /\ calls[i].pc \in {"posted", "inflight"}
    /\ calls' = [calls EXCEPT ![i] = [@ EXCEPT !.pc = "posted"]]
    /\ UNCHANGED <<phase, args, ctor, auth, session, headers, context, sapisid, started, clock, life>>

\* The connection fails: aiohttp raises ClientError out of the `async with`
NetworkFail(i) ==
    /\ calls[i].pc \in {"posted", "inflight"}
    /\ calls' = [calls EXCEPT ![i] =
            [@ EXCEPT !.pc = "done", !.result = Raised("ClientError", "await")]]
    /\ UNCHANGED <<phase, args, ctor, auth, session, headers, context, sapisid, started, clock, life>>

\* The caller cancels the task while it is suspended
Cancel(i) ==
    /\ calls[i].pc \in {"posted", "inflight"}
    /\ calls' = [calls EXCEPT ![i] =
            [@ EXCEPT !.pc = "done", !.result = Raised("CancelledError", "await")]]
    /\ UNCHANGED <<phase, args, ctor, auth, session, headers, context, sapisid, started, clock, life>>

\* Mutant of CheckAuth: the test of self.auth is inverted.
CheckAuthInverted(i) ==
    /\ CanStart(i)
    /\ calls' = [calls EXCEPT ![i] =
            [IdleCall EXCEPT !.kind = "check", !.pc = "done",
                             !.result = IF auth
                                        THEN Raised("Exception", "check_auth")
                                        ELSE Returned("None")]]
    /\ started' = started + 1
    /\ UNCHANGED <<phase, args, ctor, auth, session, headers, context, sapisid, clock, life>>

\* _check_auth, lines 187-189
CheckAuth(i) ==
    /\ CanStart(i)
    /\ calls' = [calls EXCEPT ![i] =
            [IdleCall EXCEPT !.kind = "check", !.pc = "done",
                             !.result = IF ~auth
                                        THEN Raised("Exception", "check_auth")
                                        ELSE Returned("None")]]
    /\ started' = started + 1
    /\ UNCHANGED <<phase, args, ctor, auth, session, headers, context, sapisid, clock, life>>

\* Leaving `with YTMusic(...) as yt:` once the calls made inside it are over:
\* __exit__, lines 207-208, whose body is `pass` (__enter__, lines 204-205,
\* returns self). The instance is not used after it.
Exit ==
    /\ phase = "ready"
    /\ ~life.exited
    /\ \A i \in CallIds : calls[i].pc \in {"idle", "done"}
    /\ life' = [life EXCEPT !.exited = TRUE]
    /\ UNCHANGED <<phase, args, ctor, auth, session, headers, context, sapisid, calls, started, clock>>

Next ==
    \/ Construct
    \/ Exit
    \/ \E i \in CallIds : CheckAuth(i)
    \/ Tick
    \/ \E i \in CallIds : SendRequest(i)
    \/ \E i \in CallIds : SendGetRequest(i)
    \/ \E i \in CallIds : Transmit(i)
    \/ \E i \in CallIds : Respond(i)
    \/ \E i \in CallIds : NetworkFail(i)
    \/ \E i \in CallIds : Cancel(i)

Spec == Init /\ [][Next]_vars

\* ------------------------------------------------------------------ claims
\* How the error taxonomy is read in the code: the code has no exception
\* classes of its own, so a named failure is the `raise Exception(...)` that
\* the code itself makes at the step in question; an exception of another
\* class escaping from that step, or raised at another step, is not it. The
\* code raises nothing itself for a network failure: there the named failure
\* is the HTTP library's own error (aiohttp.ClientError), passed on unchanged.
Authenticated(i) == auth /\ calls[i].kind = "post" /\ calls[i].sends > 0

\* C1: of two _send_request calls running concurrently on one authenticated
\* client, each transmits the Authorization value it computed itself, in every
\* interleaving of their steps.
C1_OwnAuthorization ==
    \A i \in CallIds : Authenticated(i) => calls[i].sentAuth = calls[i].token

\* C2: no step of _send_request (returning, raising or cancelled) changes the
\* client's shared header map: once the instance exists the map stays as it is.
C2_HeadersUnchanged == [][phase = "ready" => headers' = headers]_vars

\* C3: a credential bundle without x-goog-visitor-id makes construction issue
\* exactly one bootstrap GET and merge the visitor id into the headers, and
\* every instance that is returned has a visitor id in its headers.
C3_BootstrapResolves ==
    /\ (/\ phase # "new"
        /\ args.auth.kind = "text_json"
        /\ args.auth.bundle.visitor = Absent
        /\ args.auth.bundle.cookie = CookieSid
        /\ InSeq(args.language, supported_languages))
       => (phase = "ready" /\ ctor.gets = 1 /\ headers.visitor # Absent)
    /\ phase = "ready" => headers.visitor # Absent

\* C4: auth that is neither a file with valid JSON nor valid JSON text makes
\* construction fail at the credential-loading step, with the failure raised
\* (nothing printed and swallowed) and no later step run.
C4_CredentialErrorAtLoad ==
    (phase # "new" /\ args.auth.kind \in {"file_invalid", "text_invalid"})
    => /\ phase = "failed"
       /\ ctor.err.type = "Exception"
       /\ ctor.err.site = "load"
       /\ ~ctor.printed
       /\ ctor.steps = <<"load">>

\* C5: a response with status >= 400 and body {"error": {"message": m}} makes
\* _send_request fail with the error the code raises for API failures,
\* carrying that status and m, and with no other exception.
C5_ApiError ==
    \A i \in CallIds :
        (/\ calls[i].kind = "post"
         /\ calls[i].pc = "done"
         /\ calls[i].resp.status >= 400
         /\ calls[i].resp.shape = "error_message")
        => /\ calls[i].result.type = "Exception"
           /\ calls[i].result.status = calls[i].resp.status
           /\ InSeq(ErrorText, calls[i].result.msg)

\* C6: a GET sent by _send_get_request never carries an Authorization header,
\* whatever was done on the client before.
C6_GetUnauthenticated ==
    \A i \in CallIds :
        (calls[i].kind = "get" /\ calls[i].sends > 0) => calls[i].sentAuth = NoToken

\* C7: an authenticated construction whose bundle has no cookie, or a cookie
\* without the session-identity value, fails with the missing-cookie-value
\* error and with no other exception, and no instance is returned.
C7_MissingCookieError ==
    (/\ phase # "new"
     /\ args.auth.kind = "text_json"
     /\ args.auth.bundle.cookie # CookieSid
     /\ InSeq(args.language, supported_languages))
    => /\ phase = "failed"
       /\ ctor.err.type = "Exception"
       /\ ctor.err.site = "cookie"

\* C8: when the context builder is given a language outside the supported
\* set, construction fails with the unsupported-language error whose message
\* is the announcement followed by the supported languages, comma separated,
\* and the builder sends nothing.
C8_ExpectedMessage ==
    <<"Language not supported. Supported languages are ">>
        \o join(<<", ">>, supported_languages)

C8_LanguageError ==
    (/\ phase # "new"
     /\ ~InSeq(args.language, supported_languages)
     /\ Len(ctor.steps) >= 3)
    => /\ phase = "failed"
       /\ ctor.err = Raise("Exception", "language", C8_ExpectedMessage)
       /\ ctor.gets = 0

\* C9: when the bootstrap does not yield a visitor id, construction fails with
\* the error the code raises for a failed bootstrap (not with an exception
\* escaping from elsewhere), the GET is not repeated, and no instance without
\* a visitor id is returned.
C9_BootstrapError ==
    /\ (phase # "new" /\ ctor.headersSet /\ headers.visitor = Absent)
       => /\ phase = "failed"
          /\ ctor.err.type = "Exception"
          /\ ctor.err.site = "bootstrap"
          /\ ctor.gets <= 1
    /\ phase = "ready" => headers.visitor # Absent

\* C10: a response with status >= 400 whose body is not of the expected error
\* shape (not JSON, no "error" object, no "message") still makes _send_request
\* fail with the API error carrying the status, not with a decoding or type
\* error; stated for sessions whose responses have status_code.
C10_FallbackApiError ==
    \A i \in CallIds :
        (/\ session = "custom_sc"
         /\ calls[i].kind = "post"
         /\ calls[i].pc = "done"
         /\ calls[i].resp.status >= 400
         /\ calls[i].resp.shape # "error_message")
        => /\ calls[i].result.type = "Exception"
           /\ calls[i].result.status = calls[i].resp.status

\* C11: the Authorization value is computed anew in every authenticated call:
\* every POST that is transmitted carries the value computed from the signing
\* secret, the origin and the time of that very call.
C11_FreshToken ==
    \A i \in CallIds :
        Authenticated(i)
        => calls[i].sentAuth = get_authorization(sapisid, get_origin(headers), calls[i].at)

\* C12: on a client constructed without auth the signer is never run: no call
\* has a computed Authorization value, the shared headers hold none, and no
\* request that is transmitted carries one.
C12_UnauthenticatedNeverSigns ==
    (phase = "ready" /\ ~auth)
    => /\ headers.authorization = NoToken
       /\ \A i \in CallIds : calls[i].token = NoToken /\ calls[i].sentAuth = NoToken

\* C12 witness: an unauthenticated client has transmitted a POST and a GET.
C12_Witness ==
    /\ phase = "ready"
    /\ ~auth
    /\ \E i, j \in CallIds :
          /\ calls[i].kind = "post" /\ calls[i].sends = 1
          /\ calls[j].kind = "get" /\ calls[j].sends = 1

\* C13: the dispatcher never retries: a call transmits at most one request,
\* and a network failure ends the call with the network error raised to the
\* caller, with no second attempt.
C13_NoRetry ==
    \A i \in CallIds :
        /\ calls[i].sends <= 1
        /\ calls[i].result.type = "ClientError" => calls[i].pc = "done"

\* C13 witness: a POST was transmitted once and then failed on the network.
C13_Witness ==
    \E i \in CallIds :
        /\ calls[i].kind = "post"
        /\ calls[i].sends = 1
        /\ calls[i].result.type = "ClientError"

\* C14: the instance keeps the one session it was constructed with, and once
\* the instance has been closed (the context manager left) that session is no
\* longer open.
C14_ReleasedOnExit ==
    /\ phase # "new" => session = args.session
    /\ life.exited => ~life.sessionOpen

\* C15: in every instance that is returned the context's locale is the
\* configured language, and the context is still the one construction built
\* after any calls.
C15_LocaleFixed ==
    phase = "ready"
    => /\ context.hl = args.language
       /\ context = ctor.context

\* C15 witness: a POST and a GET have both come back on an instance.
C15_Witness ==
    /\ phase = "ready"
    /\ \E i, j \in CallIds :
          /\ calls[i].kind = "post" /\ calls[i].result.type = "return"
          /\ calls[j].kind = "get" /\ calls[j].result.type = "return"

\* C16: _check_auth raises exactly when the instance was constructed without
\* auth; it sends nothing and signs nothing either way, and returns on an
\* authenticated instance.
C16_CheckAuth ==
    \A i \in CallIds :
        calls[i].kind = "check"
        => /\ calls[i].pc = "done"
           /\ calls[i].sends = 0
           /\ calls[i].token = NoToken
           /\ ~auth => calls[i].result = Raised("Exception", "check_auth")
           /\ auth => calls[i].result = Returned("None")

\* C16 witness: the guard has raised on an unauthenticated instance.
C16_Witness ==
    /\ phase = "ready"
    /\ ~auth
    /\ \E i \in CallIds :
          calls[i].kind = "check" /\ calls[i].result.type = "Exception"

\* C17: the context holds onBehalfOfUser, with the value given, exactly when a
\* user was given to the constructor; the same goes for the context in every
\* request body, whatever the caller had put there.
C17_OnBehalfOfUser ==
    phase = "ready"
    => /\ context.onBehalfOfUser = args.user
       /\ \A i \in CallIds :
             calls[i].kind = "post"
             => /\ calls[i].body.context.onBehalfOfUser = args.user
                /\ calls[i].sends > 0
                   => calls[i].sentBody.context.onBehalfOfUser = args.user

\* C17 witness: an instance with a user has transmitted a body in which the
\* caller had put another user.
C17_Witness ==
    /\ phase = "ready"
    /\ args.user = "u1"
    /\ \E i \in CallIds :
          /\ calls[i].kind = "post"
          /\ calls[i].sends = 1
          /\ calls[i].arg.hasContext
          /\ calls[i].arg.context.onBehalfOfUser = "other"

\* C18: an instance constructed with auth has its signing secret, and every
\* Authorization value that is computed is computed from it; an instance
\* constructed without auth has no secret and computes no value.
C18_SecretDefined ==
    phase = "ready"
    => /\ auth => sapisid = Secret
       /\ ~auth => sapisid = Absent
       /\ \A i \in CallIds :
             /\ calls[i].token # NoToken => calls[i].token.secret = Secret
             /\ ~auth => calls[i].token = NoToken

\* C18 witness: an authenticated call has signed.
C18_Witness ==
    /\ phase = "ready"
    /\ auth
    /\ \E i \in CallIds : calls[i].kind = "post" /\ calls[i].token # NoToken

\* C19: the body of every _send_request is the caller's body with its
\* "context" key replaced by the client's context and its other keys kept;
\* the caller's object holds that merged body, which is what is transmitted.
C19_MergedInPlace ==
    \A i \in CallIds :
        calls[i].kind = "post"
        => /\ calls[i].body =
                [hasContext |-> TRUE, context |-> context, query |-> calls[i].arg.query]
           /\ calls[i].sends > 0 => calls[i].sentBody = calls[i].body

\* C19 witness: a body in which the caller had its own context was transmitted.
C19_Witness ==
    \E i \in CallIds :
        /\ calls[i].kind = "post"
        /\ calls[i].sends = 1
        /\ calls[i].arg.hasContext
        /\ calls[i].arg.context # context

\* C20: on an authenticated instance whose headers have neither origin nor
\* x-origin, every _send_request fails at the signing step: nothing is
\* transmitted and no Authorization value reaches the shared headers.
C20_NoOriginFailsBeforePost ==
    (phase = "ready" /\ auth /\ get_origin(headers) = Absent)
    => /\ headers.authorization = NoToken
       /\ headers = ctor.headers
       /\ \A i \in CallIds :
             calls[i].kind = "post"
             => /\ calls[i].pc = "done"
                /\ calls[i].result = Raised("TypeError", "sign")
                /\ calls[i].sends = 0

\* C20 witness: such a call has failed on a session that would have sent it.
C20_Witness ==
    /\ phase = "ready"
    /\ auth
    /\ get_origin(headers) = Absent
    /\ session # "stock"
    /\ \E i \in CallIds : calls[i].kind = "post" /\ calls[i].pc = "done"

====
